---- MODULE Spec2Model ----
(***************************************************************************)
(* A model of hgecko (src/src/main.rs): the driver that assembles a tree   *)
(* of PowerPC .asm fragments and packs the results into a Gecko code list. *)
(*                                                                         *)
(* Three specifications share the module:                                  *)
(*   Spec        the whole pipeline of main(): start_compiling,            *)
(*               collect_headers, finish_compiling, sort, write_codes,     *)
(*               with the assembler children running concurrently;         *)
(*   SpecHeader  the 'find_addr loop of collect_headers on one file, one   *)
(*               read() call per step;                                     *)
(*   SpecEncode  the loop of write_codes, one record per step.             *)
(*                                                                         *)
(* A u32 is the pair <<hi, lo>> of its 16-bit halves, so that the          *)
(* arithmetic keeps its 32-bit width.  Bytes are the integers 0..255.      *)
(***************************************************************************)
EXTENDS Integers, Sequences, FiniteSets, TLC

VARIABLES
    \* ---- the pipeline (Spec) ----
    paths,      \* asm_paths: the discovered source paths (path ids), in discovery order
    pc,         \* the function main() is in
    status,     \* "running", "exit1" (exit(1)), "panic", "ok" (main returned)
    idx,        \* the loop index of the current function (0-based count of files done)
    err,        \* the current function's local `err` flag
    jobs,       \* Vec<AssembleJob>: [src, out_path, child]; child is the process:
                \* "running", "exit0", "exit1"
    codes,      \* Vec<Code>: [addr, code, src]; src is the discovery index (history)
    tmpfs,      \* the temp directory: temp file name -> object file, or NoFile
    out,        \* the output file: [state, bytes], state "absent", "partial", "complete"
    hard,       \* history: the hard errors recorded so far, <<stage, file index>>
    awaited,    \* history: the job indexes awaited (child.wait()), in order
    log,        \* the ERROR/WARNING lines printed, <<kind, file index>>
    \* ---- the header parser (SpecHeader) ----
    hfile,      \* the file's bytes
    hread,      \* `read`: how many bytes of buf are filled
    hpc,        \* "loop", "ok", "missing", "io", "nonl"
    haddr,      \* the address found
    hintr,      \* how many reads were interrupted
    hsplit,     \* history: some read() returned data that held no address yet
    \* ---- the encoder (SpecEncode) ----
    wcodes,     \* the records given to write_codes
    wi,         \* how many records the loop has passed
    data,       \* the output buffer
    wpc,        \* "magic", "loop", "done", "panic"
    wrecs       \* history: where each emitted record starts in data, [rec, start, stop]

pvars == <<paths, pc, status, idx, err, jobs, codes, tmpfs, out, hard, awaited, log>>
hvars == <<hfile, hread, hpc, haddr, hintr, hsplit>>
wvars == <<wcodes, wi, data, wpc, wrecs>>
vars  == <<pvars, hvars, wvars>>

-----------------------------------------------------------------------------
(* Bounds of the model *)

\* the most source files of one run
MaxFiles == 2
\* the largest chunk a read() returns, besides "everything that is left"
MaxChunk == 3
\* the most interrupted reads of one file
MaxIntr == 1
\* the longest code of a record given to the encoder, in 32-bit words
MaxWords == 4

-----------------------------------------------------------------------------
(* 32-bit and bitwise arithmetic *)

RECURSIVE BitXor(_, _)
BitXor(a, b) ==
    IF a = 0 THEN b
    ELSE IF b = 0 THEN a
    ELSE (((a % 2) + (b % 2)) % 2) + 2 * BitXor(a \div 2, b \div 2)

RECURSIVE BitOr(_, _)
BitOr(a, b) ==
    IF a = 0 THEN b
    ELSE IF b = 0 THEN a
    ELSE (IF a % 2 = 1 \/ b % 2 = 1 THEN 1 ELSE 0) + 2 * BitOr(a \div 2, b \div 2)

U32(hi, lo) == <<hi, lo>>
Hi(x) == x[1]
Lo(x) == x[2]

\* u32 comparison, as sort_by_key compares the addr keys
U32Less(x, y) == Hi(x) < Hi(y) \/ (Hi(x) = Hi(y) /\ Lo(x) < Lo(y))

\* u32::to_be_bytes
ToBeBytes(x) == <<Hi(x) \div 256, Hi(x) % 256, Lo(x) \div 256, Lo(x) % 256>>

\* x << 4 on a u32: the four high bits are shifted out
Shl4(x) == U32(((Hi(x) * 16) + (Lo(x) \div 4096)) % 65536, (Lo(x) * 16) % 65536)

\* x >> 15 on a u32
Shr15(x) == U32(Hi(x) \div 32768, ((Hi(x) % 32768) * 2) + (Lo(x) \div 32768))

\* x >> 4 on a u32
Shr4(x) == U32(Hi(x) \div 16, ((Hi(x) % 16) * 4096) + (Lo(x) \div 16))

Xor32(x, y) == U32(BitXor(Hi(x), Hi(y)), BitXor(Lo(x), Lo(y)))

\* u32::wrapping_mul, by bytes (little-endian limbs a[1] .. a[4])
Limbs(x) == <<Lo(x) % 256, Lo(x) \div 256, Hi(x) % 256, Hi(x) \div 256>>
WrappingMul(x, y) ==
    LET a == Limbs(x)
        b == Limbs(y)
        t1 == a[1] * b[1]
        t2 == (a[1] * b[2]) + (a[2] * b[1]) + (t1 \div 256)
        t3 == (a[1] * b[3]) + (a[2] * b[2]) + (a[3] * b[1]) + (t2 \div 256)
        t4 == (a[1] * b[4]) + (a[2] * b[3]) + (a[3] * b[2]) + (a[4] * b[1]) + (t3 \div 256)
    IN  U32(((t4 % 256) * 256) + (t3 % 256), ((t2 % 256) * 256) + (t1 % 256))

\* c.addr - 0x80000000: every address the header parser returns starts with the
\* digit 8, so the subtraction never underflows
SubBase(x) == U32(Hi(x) - 32768, Lo(x))

-----------------------------------------------------------------------------
(* collect_headers: the address scan of one file *)

\* buf.len()
BufLen == 16

None == [ok |-> FALSE, addr |-> U32(0, 0)]

IsHex(c) == (c >= 48 /\ c <= 57) \/ (c >= 97 /\ c <= 102) \/ (c >= 65 /\ c <= 70)

\* the three arms of the match on c
HexVal(c) ==
    IF c >= 48 /\ c <= 57 THEN c - 48
    ELSE IF c >= 97 /\ c <= 102 THEN c - 97 + 10
    ELSE c - 65 + 10

\* the inner loop over the 8 bytes of one window: addr <<= 4; addr |= digit
RECURSIVE ParseWindow(_, _, _)
ParseWindow(w, k, addr) ==
    IF k > Len(w) THEN [ok |-> TRUE, addr |-> addr]
    ELSE IF ~IsHex(w[k]) THEN None
    ELSE LET a == Shl4(addr)
         IN  ParseWindow(w, k + 1, U32(Hi(a), BitOr(Lo(a), HexVal(w[k]))))

\* 'parse_addr: for w in buf[..read].windows(8), from window i on
RECURSIVE ScanFrom(_, _, _)
ScanFrom(file, read, i) ==
    IF i + 7 > read THEN None
    ELSE IF file[i] # 56 THEN ScanFrom(file, read, i + 1)
    ELSE LET r == ParseWindow(SubSeq(file, i, i + 7), 1, U32(0, 0))
         IN  IF r.ok THEN r ELSE ScanFrom(file, read, i + 1)

\* A scan of the newly read bytes buf[old..read] only
ScanAfterRead_OnlyNew(file, old, read) == ScanFrom(file, read, old + 1)

\* What the scan looks at after a read that filled buf[old..read]: buf[..read].
\* buf[..read] holds the first `read` bytes of the file.
ScanAfterRead(file, old, read) == ScanFrom(file, read, 1)

\* The newline check without the comparison of the last byte
TailCheck_NoCompare(file, seekOk, readOk) ==
    IF ~seekOk \/ Len(file) = 0 THEN "io"
    ELSE IF ~readOk THEN "io"
    ELSE "ok"

\* the newline check after the address is found: seek(End(-1)), read_exact, compare
TailCheck(file, seekOk, readOk) ==
    IF ~seekOk \/ Len(file) = 0 THEN "io"
    ELSE IF ~readOk THEN "io"
    ELSE IF file[Len(file)] # 10 THEN "nonl"
    ELSE "ok"

\* the sizes a read() into buf[read..] can return when the file has data left
Chunks(file, read) ==
    LET avail == IF Len(file) - read < BufLen - read THEN Len(file) - read ELSE BufLen - read
    IN  {n \in 1..avail : n <= MaxChunk \/ n = avail}

\* One pass of the 'find_addr loop body after read() returned Ok(n): the state of
\* the parse of this file afterwards, [st, read, addr]
AfterRead(file, read, n, seekOk, readOk) ==
    LET r == ScanAfterRead(file, read, read + n)
    IN  IF r.ok
        THEN [st |-> TailCheck(file, seekOk, readOk), read |-> read + n, addr |-> r.addr]
        ELSE [st |-> "loop", read |-> read + n, addr |-> U32(0, 0)]

\* The whole parse of one file when every read() returns all that is left; io names
\* the system call that fails, if one does
RECURSIVE ParseLoop(_, _, _)
ParseLoop(file, read, io) ==
    IF read = BufLen THEN [st |-> "missing", read |-> read, addr |-> U32(0, 0)]
    ELSE IF io = "read" THEN [st |-> "io", read |-> read, addr |-> U32(0, 0)]
    ELSE IF read = Len(file) THEN [st |-> "missing", read |-> read, addr |-> U32(0, 0)]
    ELSE LET avail == IF Len(file) < BufLen THEN Len(file) - read ELSE BufLen - read
             s == AfterRead(file, read, avail, io # "seek", io # "read_exact")
         IN  IF s.st = "loop" THEN ParseLoop(file, s.read, io) ELSE s

HeaderOf(file, io) ==
    IF io = "open" THEN [st |-> "io", read |-> 0, addr |-> U32(0, 0)]
    ELSE ParseLoop(file, 0, io)

-----------------------------------------------------------------------------
(* The source files the header parser is run on *)

\* the ASCII hex digit of a nibble, lower case
HexChar(n) == IF n < 10 THEN 48 + n ELSE 87 + n
HexText(nibbles) == [k \in 1..Len(nibbles) |-> HexChar(nibbles[k])]

\* n bytes of 'x'
Pad(n) == [k \in 1..n |-> 120]

TokA     == HexText(<<8, 0, 0, 0, 1, 2, 3, 4>>)
TokB     == HexText(<<8, 0, 0, 0, 2, 0, 0, 0>>)
TokMax   == <<56, 70, 70, 70, 70, 70, 70, 70>>       \* "8FFFFFFF"
TokMixed == <<56, 48, 48, 48, 97, 66, 99, 70>>       \* "8000aBcF"
TokShort == <<56, 48, 48, 48, 49, 50, 51>>           \* "8000123": 7 digits
TokBad   == <<56, 48, 48, 48, 103, 50, 51, 52>>      \* "8000g234"

\* what precedes the token: nothing, "8" (which starts an earlier token), "8g", "@"
Pres  == {<< >>, <<56>>, <<56, 103>>, <<64>>}
Cores == {TokA, TokMax, TokMixed, TokShort, TokBad, << >>}
\* what follows it: "\n", nothing, "x", " 80002000\n"
Posts == {<<10>>, << >>, <<120>>, <<32>> \o TokB \o <<10>>}

ShortFiles ==
    {Pad(p) \o pre \o core \o post : p \in 0..2, pre \in Pres, core \in Cores, post \in Posts}

\* files around the end of the lookahead window: the token ends at byte 512, at
\* byte 513, or lies beyond the window; a file of 520 bytes with no token
LongFiles ==
    {Pad(BufLen - 8) \o TokA \o <<10>>, Pad(BufLen - 7) \o TokA \o <<10>>,
     Pad(BufLen - 8) \o TokA, Pad(BufLen + 8) \o <<10>>}

HeaderFiles == ShortFiles \cup LongFiles

-----------------------------------------------------------------------------
(* SpecHeader: the 'find_addr loop, one read() per step *)

HIdle == hfile = << >> /\ hread = 0 /\ hpc = "idle" /\ haddr = U32(0, 0) /\ hintr = 0
         /\ hsplit = FALSE

HInit ==
    /\ hfile \in HeaderFiles
    /\ hread = 0
    /\ hpc = "loop"
    /\ haddr = U32(0, 0)
    /\ hintr = 0
    /\ hsplit = FALSE

\* if read == buf.len(): no injection address
HExhausted ==
    /\ hpc = "loop" /\ hread = BufLen
    /\ hpc' = "missing"
    /\ UNCHANGED <<hfile, hread, haddr, hintr, hsplit>>
    /\ UNCHANGED <<pvars, wvars>>

\* Ok(0): end of file, no injection address
HEof ==
    /\ hpc = "loop" /\ hread < BufLen /\ hread = Len(hfile)
    /\ hpc' = "missing"
    /\ UNCHANGED <<hfile, hread, haddr, hintr, hsplit>>
    /\ UNCHANGED <<pvars, wvars>>

\* Err(Interrupted): continue
HInterrupted ==
    /\ hpc = "loop" /\ hread < BufLen /\ hintr < MaxIntr
    /\ hintr' = hintr + 1
    /\ UNCHANGED <<hfile, hread, hpc, haddr, hsplit>>
    /\ UNCHANGED <<pvars, wvars>>

\* Err(e): failed to read
HReadErr ==
    /\ hpc = "loop" /\ hread < BufLen
    /\ hpc' = "io"
    /\ UNCHANGED <<hfile, hread, haddr, hintr, hsplit>>
    /\ UNCHANGED <<pvars, wvars>>

\* Ok(n): read += n, scan the windows, and with an address check the last byte
HReadChunk ==
    /\ hpc = "loop" /\ hread < BufLen
    /\ \E n \in Chunks(hfile, hread), seekOk \in BOOLEAN, readOk \in BOOLEAN :
         LET s == AfterRead(hfile, hread, n, seekOk, readOk)
         IN  /\ hread' = s.read
             /\ hpc' = s.st
             /\ haddr' = s.addr
             /\ hsplit' = (hsplit \/ s.st = "loop")
    /\ UNCHANGED <<hfile, hintr>>
    /\ UNCHANGED <<pvars, wvars>>

HNext == HExhausted \/ HEof \/ HInterrupted \/ HReadErr \/ HReadChunk


-----------------------------------------------------------------------------
(* write_codes: the encoder *)

Magic      == <<0, 208, 192, 222, 0, 208, 192, 222>>     \* 00 D0 C0 DE 00 D0 C0 DE
Terminator == <<240, 0, 0, 0, 0, 0, 0, 0>>               \* F0 00 00 00 00 00 00 00
Nop        == <<96, 0, 0, 0>>                            \* 60 00 00 00
Filler     == <<0, 0, 0, 0>>

\* the record-type tags OR-ed into addr[0]
TagSingle == 4
TagMulti  == 194

\* code_lines without the extra line of an even word count
CodeLines_Half(code_words) == (code_words + 1) \div 2

\* code_lines, from code_words
CodeLines(code_words) ==
    IF code_words % 2 = 0 THEN (code_words + 2) \div 2 ELSE (code_words + 1) \div 2

\* The tagged address without the subtraction of the base
TaggedAddr_NoSub(addr, tag) ==
    LET b == ToBeBytes(addr)
    IN  <<BitOr(b[1], tag), b[2], b[3], b[4]>>

\* (c.addr - 0x80000000).to_be_bytes() with the tag OR-ed into byte 0
TaggedAddr(addr, tag) ==
    LET b == ToBeBytes(SubBase(addr))
    IN  <<BitOr(b[1], tag), b[2], b[3], b[4]>>

\* the bytes one non-empty record appends to data
EncodeRecord(c) ==
    IF Len(c.code) = 4
    THEN TaggedAddr(c.addr, TagSingle) \o c.code
    ELSE LET code_words == Len(c.code) \div 4
             code_lines == CodeLines(code_words)
         IN  TaggedAddr(c.addr, TagMulti)
             \o ToBeBytes(U32(code_lines \div 65536, code_lines % 65536))
             \o c.code
             \o (IF code_words % 2 = 0 THEN Nop ELSE << >>)
             \o Filler

\* if c.code.is_empty() { continue; }
Skipped(c) == Len(c.code) = 0

\* assert!(c.code.len() % 4 == 0)
AssertFails(c) == ~Skipped(c) /\ Len(c.code) % 4 # 0

\* the loop of write_codes from record i on: the buffer, or a panic
RECURSIVE EncodeFrom(_, _, _)
EncodeFrom(cs, i, buf) ==
    IF i > Len(cs) THEN [panic |-> FALSE, data |-> buf \o Terminator]
    ELSE IF Skipped(cs[i]) THEN EncodeFrom(cs, i + 1, buf)
    ELSE IF AssertFails(cs[i]) THEN [panic |-> TRUE, data |-> buf]
    ELSE EncodeFrom(cs, i + 1, buf \o EncodeRecord(cs[i]))

EncodeAll(cs) == EncodeFrom(cs, 1, Magic)

\* An insertion that puts c before the records of an equal key: an unstable sort
RECURSIVE InsertSorted_Unstable(_, _)
InsertSorted_Unstable(sorted, c) ==
    IF sorted = << >> THEN <<c>>
    ELSE IF ~U32Less(sorted[Len(sorted)].addr, c.addr)
         THEN InsertSorted_Unstable(SubSeq(sorted, 1, Len(sorted) - 1), c)
              \o <<sorted[Len(sorted)]>>
         ELSE sorted \o <<c>>

\* codes.sort_by_key(|c| c.addr): a stable sort; insertion of cs[i] after the
\* records whose key is not greater
RECURSIVE InsertSorted(_, _)
InsertSorted(sorted, c) ==
    IF sorted = << >> THEN <<c>>
    ELSE IF U32Less(c.addr, sorted[Len(sorted)].addr)
         THEN InsertSorted(SubSeq(sorted, 1, Len(sorted) - 1), c) \o <<sorted[Len(sorted)]>>
         ELSE sorted \o <<c>>

RECURSIVE SortFrom(_, _, _)
SortFrom(cs, i, acc) ==
    IF i > Len(cs) THEN acc ELSE SortFrom(cs, i + 1, InsertSorted(acc, cs[i]))

SortByAddr(cs) == SortFrom(cs, 1, << >>)

-----------------------------------------------------------------------------
(* SpecEncode: the loop of write_codes, one record per step *)

\* addresses the header parser returns: 0x80000000, 0x80001234, 0x80FFFFFF,
\* 0x81000000, 0x84000000, 0x8FFFFFFF
EncTokens ==
    {<<8, 0, 0, 0, 0, 0, 0, 0>>, <<8, 0, 0, 0, 1, 2, 3, 4>>, <<8, 0, 15, 15, 15, 15, 15, 15>>,
     <<8, 1, 0, 0, 0, 0, 0, 0>>, <<8, 4, 0, 0, 0, 0, 0, 0>>, <<8, 15, 15, 15, 15, 15, 15, 15>>}
EncAddrs == {HeaderOf(HexText(t) \o <<10>>, "none").addr : t \in EncTokens}

\* code of len bytes; the bytes tell the records of one run apart
CodeBytes(seed, len) == [k \in 1..len |-> (seed * 16 + k) % 256]

\* code lengths: every multiple of 4 up to MaxWords words, and the lengths between,
\* which the assertion rejects
WLens == {n \in 0..(4 * MaxWords) : n % 2 = 0}

WRecords(seed) == {[addr |-> a, code |-> CodeBytes(seed, n), src |-> seed] : a \in EncAddrs, n \in WLens}

IsSorted(cs) == \A i \in 1..Len(cs), j \in 1..Len(cs) : i < j => ~U32Less(cs[j].addr, cs[i].addr)

WIdle == wcodes = << >> /\ wi = 0 /\ data = << >> /\ wpc = "idle" /\ wrecs = << >>

WInit ==
    /\ wcodes \in {<<r>> : r \in WRecords(1)}
                  \cup {cs \in {<<r1, r2>> : r1 \in WRecords(1), r2 \in WRecords(2)} : IsSorted(cs)}
    /\ wi = 0
    /\ data = << >>
    /\ wpc = "magic"
    /\ wrecs = << >>

WMagic ==
    /\ wpc = "magic"
    /\ data' = Magic
    /\ wpc' = "loop"
    /\ UNCHANGED <<wcodes, wi, wrecs>>
    /\ UNCHANGED <<pvars, hvars>>

WSkip ==
    /\ wpc = "loop" /\ wi < Len(wcodes) /\ Skipped(wcodes[wi + 1])
    /\ wi' = wi + 1
    /\ UNCHANGED <<wcodes, data, wpc, wrecs>>
    /\ UNCHANGED <<pvars, hvars>>

WAssert ==
    /\ wpc = "loop" /\ wi < Len(wcodes) /\ AssertFails(wcodes[wi + 1])
    /\ wpc' = "panic"
    /\ UNCHANGED <<wcodes, wi, data, wrecs>>
    /\ UNCHANGED <<pvars, hvars>>

WRecord ==
    /\ wpc = "loop" /\ wi < Len(wcodes)
    /\ ~Skipped(wcodes[wi + 1]) /\ ~AssertFails(wcodes[wi + 1])
    /\ data' = data \o EncodeRecord(wcodes[wi + 1])
    /\ wrecs' = Append(wrecs, [rec |-> wi + 1, start |-> Len(data) + 1, stop |-> Len(data')])
    /\ wi' = wi + 1
    /\ UNCHANGED <<wcodes, wpc>>
    /\ UNCHANGED <<pvars, hvars>>

WEnd ==
    /\ wpc = "loop" /\ wi = Len(wcodes)
    /\ data' = data \o Terminator
    /\ wpc' = "done"
    /\ UNCHANGED <<wcodes, wi, wrecs>>
    /\ UNCHANGED <<pvars, hvars>>

WNext == WMagic \/ WSkip \/ WAssert \/ WRecord \/ WEnd


-----------------------------------------------------------------------------
(* hash_bytes and the temp file name of start_compiling *)

HashSeed == U32(0, 1234)
HashMul  == U32(23505, 59797)                     \* 0x5bd1e995

\* one round: h ^= b; h = h.wrapping_mul(0x5bd1e995); h ^= h >> 15
HashRound(h, b) ==
    LET h1 == U32(Hi(h), BitXor(Lo(h), b))
        h2 == WrappingMul(h1, HashMul)
    IN  Xor32(h2, Shr15(h2))

\* for b in b { ... }: the rounds from byte i on.  (h2 is bound through a set so
\* that each round is computed before the next one starts.)
RECURSIVE HashFrom(_, _, _)
HashFrom(bytes, i, h) ==
    IF i > Len(bytes) THEN h
    ELSE CHOOSE r \in {HashFrom(bytes, i + 1, h2) : h2 \in {HashRound(h, bytes[i])}} : TRUE

hash_bytes(bytes) == HashFrom(bytes, 1, HashSeed)

\* The name without the shift: the low nibble eight times
NameFrom_NoShift(hash, k) == [j \in 1..k |-> 97 + (Lo(hash) % 16)]

\* for i in 0..8 { b[i] = b'a' + (hash & 0xf); hash >>= 4 }
RECURSIVE NameFrom(_, _)
NameFrom(hash, k) ==
    IF k = 0 THEN << >> ELSE <<97 + (Lo(hash) % 16)>> \o NameFrom(Shr4(hash), k - 1)

TempName(hash) == NameFrom(hash, 8)

-----------------------------------------------------------------------------
(* The source tree of a run *)

\* the paths collect_asm can discover: "m/ivm8.asm", "m/n6ar.asm", "m/e.asm"
PathBytes(p) ==
    CASE p = 1 -> <<109, 47, 105, 118, 109, 56, 46, 97, 115, 109>>
      [] p = 2 -> <<109, 47, 110, 54, 97, 114, 46, 97, 115, 109>>
      [] OTHER -> <<109, 47, 101, 46, 97, 115, 109>>
AllPaths == {1, 2, 3}

\* out_path of the job of path p (the temp directory is the same for every job)
OutPath(p) == TempName(hash_bytes(PathBytes(p)))

\* the injection address written in the header of path p:
\* 0x80002000, 0x80001000, 0x80001000
SrcToken(p) ==
    CASE p = 1 -> <<8, 0, 0, 0, 2, 0, 0, 0>>
      [] p = 2 -> <<8, 0, 0, 0, 1, 0, 0, 0>>
      [] OTHER -> <<8, 0, 0, 0, 1, 0, 0, 0>>
SrcAddr(p) ==
    CASE p = 1 -> U32(32768, 8192)
      [] p = 2 -> U32(32768, 4096)
      [] OTHER -> U32(32768, 4096)

\* the text of path p: "# <address>\n", the same without the newline, or "#\n"
SrcText(p, v) ==
    CASE v = "good"   -> <<35, 32>> \o HexText(SrcToken(p)) \o <<10>>
      [] v = "nonl"   -> <<35, 32>> \o HexText(SrcToken(p))
      [] OTHER        -> <<35, 10>>

\* what can go wrong with the header of one file: the text, and the call that fails
HeaderCases ==
    {[v |-> "good", io |-> f] : f \in {"none", "open", "read", "seek", "read_exact"}}
    \cup {[v |-> "nonl", io |-> "none"], [v |-> "noaddr", io |-> "none"]}

\* the object files the assembler can leave for path p
NoFile == [src |-> 0, kind |-> "nofile", undef |-> FALSE, code |-> << >>]
Objects(p) ==
    {[src |-> p, kind |-> k, undef |-> FALSE, code |-> << >>] :
        k \in {"garbage", "nosymtab", "notext", "compressed"}}
    \cup {[src |-> p, kind |-> "text", undef |-> FALSE, code |-> CodeBytes(p, n)] :
        n \in {0, 4, 6, 8, 12}}
    \cup {[src |-> p, kind |-> "text", undef |-> TRUE, code |-> CodeBytes(p, 4)]}

\* the body of the loop of finish_compiling after a successful wait: open the
\* object, parse it, warn about undefined symbols, take .text
Extract(obj) ==
    CASE obj.kind = "nofile"     -> [err |-> "elf_open", warn |-> {}, code |-> << >>]
      [] obj.kind = "garbage"    -> [err |-> "elf_parse", warn |-> {}, code |-> << >>]
      [] obj.kind = "nosymtab"   -> [err |-> "symtab", warn |-> {}, code |-> << >>]
      [] obj.kind = "notext"     -> [err |-> "text", warn |-> {"undef" : u \in {obj.undef} \ {FALSE}},
                                     code |-> << >>]
      [] obj.kind = "compressed" -> [err |-> "compressed", warn |-> {}, code |-> << >>]
      [] OTHER -> [err |-> "none",
                   warn |-> (IF obj.undef THEN {"undef"} ELSE {})
                            \cup (IF obj.code = << >> THEN {"empty"} ELSE {}),
                   code |-> obj.code]

-----------------------------------------------------------------------------
(* Spec: main() *)

PIdle ==
    /\ paths = << >> /\ pc = "idle" /\ status = "idle" /\ idx = 0 /\ err = FALSE
    /\ jobs = << >> /\ codes = << >> /\ tmpfs = << >>
    /\ out = [state |-> "absent", bytes |-> << >>]
    /\ hard = {} /\ awaited = << >> /\ log = {}

\* the sequences of distinct paths of at most MaxFiles files
PathSeqs ==
    UNION {{q \in [1..n -> AllPaths] : \A i \in 1..n, j \in 1..n : i # j => q[i] # q[j]} :
             n \in 0..MaxFiles}

TempNames == {OutPath(p) : p \in AllPaths}

PInit ==
    /\ paths \in PathSeqs
    /\ pc = "start_compiling"
    /\ status = "running"
    /\ idx = 0
    /\ err = FALSE
    /\ jobs = << >>
    /\ codes = << >>
    /\ tmpfs = [t \in TempNames |-> NoFile]
    /\ out = [state |-> "absent", bytes |-> << >>]
    /\ hard = {}
    /\ awaited = << >>
    /\ log = {}

N == Len(paths)

\* start_compiling: one iteration of the loop over the paths
StartCompiling ==
    /\ status = "running" /\ pc = "start_compiling" /\ idx < N
    /\ \E spawned \in BOOLEAN :
         IF spawned
         THEN /\ jobs' = Append(jobs, [src |-> idx + 1, out_path |-> OutPath(paths[idx + 1]),
                                       child |-> "running"])
              /\ UNCHANGED <<err, hard, log>>
         ELSE /\ err' = TRUE
              /\ hard' = hard \cup {<<"start_compiling", idx + 1>>}
              /\ log' = log \cup {<<"spawn", idx + 1>>}
              /\ UNCHANGED jobs
    /\ idx' = idx + 1
    /\ UNCHANGED <<paths, pc, status, codes, tmpfs, out, awaited>>
    /\ UNCHANGED <<hvars, wvars>>

\* start_compiling: if err { exit(1); } jobs
StartDone ==
    /\ status = "running" /\ pc = "start_compiling" /\ idx = N
    /\ IF err
       THEN status' = "exit1" /\ UNCHANGED <<pc, idx, err>>
       ELSE pc' = "collect_headers" /\ idx' = 0 /\ err' = FALSE /\ UNCHANGED status
    /\ UNCHANGED <<paths, jobs, codes, tmpfs, out, hard, awaited, log>>
    /\ UNCHANGED <<hvars, wvars>>

\* collect_headers leaving at the first bad header
CollectHeader_FailFast ==
    /\ status = "running" /\ pc = "collect_headers" /\ idx < Len(paths)
    /\ \E c \in HeaderCases :
         LET r == HeaderOf(SrcText(paths[idx + 1], c.v), c.io)
         IN  IF r.st = "ok"
             THEN /\ codes' = Append(codes, [addr |-> r.addr, code |-> << >>, src |-> idx + 1])
                  /\ UNCHANGED <<err, hard, log, status>>
             ELSE /\ err' = TRUE
                  /\ status' = "exit1"
                  /\ hard' = hard \cup {<<"collect_headers", idx + 1>>}
                  /\ log' = log \cup {<<r.st, idx + 1>>}
                  /\ UNCHANGED codes
    /\ idx' = idx + 1
    /\ UNCHANGED <<paths, pc, jobs, tmpfs, out, awaited>>
    /\ UNCHANGED <<hvars, wvars>>

\* collect_headers: one iteration of 'file
CollectHeader ==
    /\ status = "running" /\ pc = "collect_headers" /\ idx < N
    /\ \E c \in HeaderCases :
         LET r == HeaderOf(SrcText(paths[idx + 1], c.v), c.io)
         IN  IF r.st = "ok"
             THEN /\ codes' = Append(codes, [addr |-> r.addr, code |-> << >>, src |-> idx + 1])
                  /\ UNCHANGED <<err, hard, log>>
             ELSE /\ err' = TRUE
                  /\ hard' = hard \cup {<<"collect_headers", idx + 1>>}
                  /\ log' = log \cup {<<r.st, idx + 1>>}
                  /\ UNCHANGED codes
    /\ idx' = idx + 1
    /\ UNCHANGED <<paths, pc, status, jobs, tmpfs, out, awaited>>
    /\ UNCHANGED <<hvars, wvars>>

\* collect_headers: if err { exit(1); } codes
HeadersDone ==
    /\ status = "running" /\ pc = "collect_headers" /\ idx = N
    /\ IF err
       THEN status' = "exit1" /\ UNCHANGED <<pc, idx, err>>
       ELSE pc' = "finish_compiling" /\ idx' = 0 /\ err' = FALSE /\ UNCHANGED status
    /\ UNCHANGED <<paths, jobs, codes, tmpfs, out, hard, awaited, log>>
    /\ UNCHANGED <<hvars, wvars>>

\* an assembler process ends: it fails, or it leaves an object at its out_path (or
\* none) and exits with status 0
ChildFails(k) ==
    /\ status = "running" /\ k \in 1..Len(jobs) /\ jobs[k].child = "running"
    /\ jobs' = [jobs EXCEPT ![k].child = "exit1"]
    /\ UNCHANGED <<paths, pc, status, idx, err, codes, tmpfs, out, hard, awaited, log>>
    /\ UNCHANGED <<hvars, wvars>>

ChildWrites(k) ==
    /\ status = "running" /\ k \in 1..Len(jobs) /\ jobs[k].child = "running"
    /\ \E o \in Objects(paths[jobs[k].src]) \cup {NoFile} :
         tmpfs' = IF o = NoFile THEN tmpfs ELSE [tmpfs EXCEPT ![jobs[k].out_path] = o]
    /\ jobs' = [jobs EXCEPT ![k].child = "exit0"]
    /\ UNCHANGED <<paths, pc, status, idx, err, codes, out, hard, awaited, log>>
    /\ UNCHANGED <<hvars, wvars>>

\* A harvest that leaves at the first failed job or object
Harvest_FailFast(i) ==
    /\ IF jobs[i].child = "exit1"
       THEN /\ err' = TRUE
            /\ status' = "exit1"
            /\ hard' = hard \cup {<<"finish_compiling", i>>}
            /\ UNCHANGED <<codes, log>>
       ELSE LET x == Extract(tmpfs[jobs[i].out_path])
            IN  IF x.err # "none"
                THEN /\ err' = TRUE
                     /\ status' = "exit1"
                     /\ hard' = hard \cup {<<"finish_compiling", i>>}
                     /\ log' = log \cup {<<x.err, i>>} \cup {<<w, i>> : w \in x.warn}
                     /\ UNCHANGED codes
                ELSE /\ codes' = [codes EXCEPT ![i].code = x.code]
                     /\ log' = log \cup {<<w, i>> : w \in x.warn}
                     /\ UNCHANGED <<err, hard, status>>
    /\ idx' = i

\* A harvest that stores every code in the first record
Harvest_WrongSlot(i) ==
    /\ IF jobs[i].child = "exit1"
       THEN /\ err' = TRUE
            /\ hard' = hard \cup {<<"finish_compiling", i>>}
            /\ UNCHANGED <<codes, log>>
       ELSE LET x == Extract(tmpfs[jobs[i].out_path])
            IN  IF x.err # "none"
                THEN /\ err' = TRUE
                     /\ hard' = hard \cup {<<"finish_compiling", i>>}
                     /\ log' = log \cup {<<x.err, i>>} \cup {<<w, i>> : w \in x.warn}
                     /\ UNCHANGED codes
                ELSE /\ codes' = [codes EXCEPT ![1].code = x.code]
                     /\ log' = log \cup {<<w, i>> : w \in x.warn}
                     /\ UNCHANGED <<err, hard>>
    /\ idx' = i
    /\ UNCHANGED status

\* finish_compiling: what one iteration does once wait() has returned: a failed
\* job or a failed extraction sets err and the loop goes on; the code of a good
\* object is stored in codes[i]
Harvest(i) ==
    /\ IF jobs[i].child = "exit1"
       THEN /\ err' = TRUE
            /\ hard' = hard \cup {<<"finish_compiling", i>>}
            /\ UNCHANGED <<codes, log>>
       ELSE LET x == Extract(tmpfs[jobs[i].out_path])
            IN  IF x.err # "none"
                THEN /\ err' = TRUE
                     /\ hard' = hard \cup {<<"finish_compiling", i>>}
                     /\ log' = log \cup {<<x.err, i>>} \cup {<<w, i>> : w \in x.warn}
                     /\ UNCHANGED codes
                ELSE /\ codes' = [codes EXCEPT ![i].code = x.code]
                     /\ log' = log \cup {<<w, i>> : w \in x.warn}
                     /\ UNCHANGED <<err, hard>>
    /\ idx' = i
    /\ UNCHANGED status

\* finish_compiling: one iteration of 'file, for i in 0..codes.len(): wait for
\* jobs[i] (a wait() error panics in unwrap), then harvest it
FinishCompiling ==
    /\ status = "running" /\ pc = "finish_compiling" /\ idx < Len(codes)
    /\ IF idx + 1 > Len(jobs)
       THEN /\ status' = "panic"
            /\ UNCHANGED <<idx, err, codes, hard, awaited, log>>
       ELSE /\ jobs[idx + 1].child # "running"
            /\ awaited' = Append(awaited, idx + 1)
            /\ \E waitOk \in BOOLEAN :
                 IF waitOk
                 THEN Harvest(idx + 1)
                 ELSE status' = "panic" /\ UNCHANGED <<idx, err, codes, hard, log>>
    /\ UNCHANGED <<paths, pc, jobs, tmpfs, out>>
    /\ UNCHANGED <<hvars, wvars>>

\* finish_compiling going on to the sort whatever err says
FinishDone_NoExit ==
    /\ status = "running" /\ pc = "finish_compiling" /\ idx = Len(codes)
    /\ pc' = "sort" /\ idx' = 0 /\ err' = FALSE /\ UNCHANGED status
    /\ UNCHANGED <<paths, jobs, codes, tmpfs, out, hard, awaited, log>>
    /\ UNCHANGED <<hvars, wvars>>

\* finish_compiling: if err { exit(1); }
FinishDone ==
    /\ status = "running" /\ pc = "finish_compiling" /\ idx = Len(codes)
    /\ IF err
       THEN status' = "exit1" /\ UNCHANGED <<pc, idx, err>>
       ELSE pc' = "sort" /\ idx' = 0 /\ err' = FALSE /\ UNCHANGED status
    /\ UNCHANGED <<paths, jobs, codes, tmpfs, out, hard, awaited, log>>
    /\ UNCHANGED <<hvars, wvars>>

\* main: codes.sort_by_key(|c| c.addr)
Sort ==
    /\ status = "running" /\ pc = "sort"
    /\ codes' = SortByAddr(codes)
    /\ pc' = "write_codes"
    /\ UNCHANGED <<paths, status, idx, err, jobs, tmpfs, out, hard, awaited, log>>
    /\ UNCHANGED <<hvars, wvars>>

\* main: write_codes, then the summary line
WriteCodes ==
    /\ status = "running" /\ pc = "write_codes"
    /\ LET e == EncodeAll(codes)
       IN  IF e.panic
           THEN status' = "panic" /\ UNCHANGED <<out, log>>
           ELSE \E written \in BOOLEAN :
                  IF written
                  THEN /\ out' = [state |-> "complete", bytes |-> e.data]
                       /\ status' = "ok"
                       /\ UNCHANGED log
                  ELSE /\ out' \in {out, [state |-> "partial", bytes |-> << >>]}
                       /\ status' = "exit1"
                       /\ log' = log \cup {<<"write", 0>>}
    /\ UNCHANGED <<paths, pc, idx, err, jobs, codes, tmpfs, hard, awaited>>
    /\ UNCHANGED <<hvars, wvars>>

PNext ==
    \/ StartCompiling \/ StartDone
    \/ CollectHeader \/ HeadersDone
    \/ \E k \in 1..MaxFiles : ChildFails(k)
    \/ \E k \in 1..MaxFiles : ChildWrites(k)
    \/ FinishCompiling \/ FinishDone
    \/ Sort \/ WriteCodes

-----------------------------------------------------------------------------
(* The specifications *)

Init == PInit /\ HIdle /\ WIdle
Next == PNext
Spec == Init /\ [][Next]_vars

InitHeader == HInit /\ PIdle /\ WIdle
NextHeader == HNext
SpecHeader == InitHeader /\ [][NextHeader]_vars

InitEncode == WInit /\ PIdle /\ HIdle
NextEncode == WNext
SpecEncode == InitEncode /\ [][NextEncode]_vars


-----------------------------------------------------------------------------
(* Vocabulary of the properties *)

\* how many files each stage has attempted
SpawnsTried  == IF pc = "start_compiling" THEN idx ELSE N
HeadersTried == IF pc = "start_compiling" THEN 0
                ELSE IF pc = "collect_headers" THEN idx ELSE N
NoSpawnFailed == \A e \in hard : e[1] # "start_compiling"

\* the codes the assembler can produce from path p
OwnCodes(p) == {o.code : o \in Objects(p)}

\* job i shares its temp file name with no other job of the run
OwnsTempFile(i) == \A j \in 1..Len(jobs) : j # i => jobs[j].out_path # jobs[i].out_path

NonEmpty(c) == c.code # << >>

RECURSIVE ConcatEncodings(_)
ConcatEncodings(cs) ==
    IF cs = << >> THEN << >> ELSE EncodeRecord(Head(cs)) \o ConcatEncodings(Tail(cs))

\* the value of a hex digit, and of the 8-digit token at f[i..i+7]
HexDigits == (48..57) \cup (65..70) \cup (97..102)
DigitValue(c) == IF c <= 57 THEN c - 48 ELSE IF c <= 70 THEN c - 55 ELSE c - 87
ValidTokenAt(f, i) ==
    /\ i >= 1 /\ i + 7 <= Len(f)
    /\ f[i] = 56
    /\ \A k \in 0..7 : f[i + k] \in HexDigits
TokenValue(f, i) ==
    U32(DigitValue(f[i]) * 4096 + DigitValue(f[i + 1]) * 256
          + DigitValue(f[i + 2]) * 16 + DigitValue(f[i + 3]),
        DigitValue(f[i + 4]) * 4096 + DigitValue(f[i + 5]) * 256
          + DigitValue(f[i + 6]) * 16 + DigitValue(f[i + 7]))
\* the token at i lies within the lookahead window
InWindow(f, i) == ValidTokenAt(f, i) /\ i + 7 <= BufLen
FirstToken(f, i) == InWindow(f, i) /\ \A j \in 1..(i - 1) : ~ValidTokenAt(f, j)
HasToken(f) == \E i \in 1..BufLen : InWindow(f, i)
NewlineTerminated(f) == Len(f) > 0 /\ f[Len(f)] = 10
NotNewlineEnded(f) == Len(f) > 0 /\ f[Len(f)] # 10

\* the record of an entry of wrecs, its tagged address field and its tag
RecOf(e) == wcodes[e.rec]
FieldOf(e) == SubSeq(data, e.start, e.start + 3)
TagOf(c) == IF Len(c.code) = 4 THEN TagSingle ELSE TagMulti
Emitted == {wrecs[k] : k \in 1..Len(wrecs)}

-----------------------------------------------------------------------------
(* The properties *)

\* C1: the output file is written only in a run with no hard error: once a spawn, a
\* header, a job or an object extraction has failed, the output file stays absent.
C1_NoOutputAfterHardError ==
    /\ out.state # "absent" => hard = {} /\ pc = "write_codes"
    /\ hard # {} /\ status # "running" => status \in {"exit1", "panic"}
C1_Witness ==
    /\ status = "exit1" /\ pc = "finish_compiling" /\ hard # {}
    /\ out.state = "absent" /\ N = 2

\* C2: the written output is the magic, then the encodings of the records with
\* non-empty code in ascending address order, equal addresses in discovery order,
\* then the terminator; there is one record per source, with its header's address.
C2_OutputLayout ==
    status = "ok" =>
      /\ out.state = "complete"
      /\ Len(codes) = N
      /\ {codes[i].src : i \in 1..Len(codes)} = 1..N
      /\ \A i \in 1..Len(codes) : codes[i].addr = SrcAddr(paths[codes[i].src])
      /\ \A i \in 1..Len(codes), j \in 1..Len(codes) :
           i < j => \/ U32Less(codes[i].addr, codes[j].addr)
                    \/ (codes[i].addr = codes[j].addr /\ codes[i].src < codes[j].src)
      /\ out.bytes = Magic \o ConcatEncodings(SelectSeq(codes, NonEmpty)) \o Terminator
C2_Witness ==
    /\ status = "ok" /\ N = 2
    /\ codes[1].src = 2
    /\ codes[1].code = << >> /\ Len(codes[2].code) = 8

\* C3 as stated: every valid token T within the window of a newline-terminated file
\* is what the parser returns.
C3_Original ==
    \A i \in 1..BufLen :
      (InWindow(hfile, i) /\ NewlineTerminated(hfile) /\ hpc \notin {"loop", "io"})
        => (hpc = "ok" /\ haddr = TokenValue(hfile, i))
\* C3, amended: however the reads are split, the parser returns the value of the
\* leftmost valid token of the window, and it reports a missing address only when
\* the window holds no valid token.
C3_LeftmostToken ==
    /\ hpc = "ok" =>
         /\ NewlineTerminated(hfile)
         /\ \E i \in 1..BufLen : FirstToken(hfile, i) /\ haddr = TokenValue(hfile, i)
    /\ hpc = "missing" => ~HasToken(hfile)
    /\ hpc = "loop" => \A i \in 1..BufLen : ~(ValidTokenAt(hfile, i) /\ i + 7 <= hread)
C3_Witness ==
    /\ hpc = "ok" /\ hsplit
    /\ FirstToken(hfile, BufLen - 7)

\* C4 as stated: a file whose last byte is not a newline fails with
\* NotNewlineTerminated.
C4_Original ==
    (NotNewlineEnded(hfile) /\ hpc \notin {"loop", "io"}) => hpc = "nonl"
\* C4, amended: a file whose last byte is not a newline is never accepted; it fails
\* with NotNewlineTerminated when the window holds a valid token and with
\* MissingAddress when it holds none.
C4_NotNewlineRejected ==
    /\ NotNewlineEnded(hfile) =>
         /\ hpc # "ok"
         /\ hpc = "nonl" => HasToken(hfile)
         /\ hpc = "missing" => ~HasToken(hfile)
    /\ hpc = "nonl" => NotNewlineEnded(hfile)
C4_Witness ==
    /\ hpc = "nonl" /\ hsplit /\ NotNewlineEnded(hfile)

\* C5 as stated: the high byte of every tagged address field is the tag itself.
C5_Original ==
    \A e \in Emitted : FieldOf(e)[1] = TagOf(RecOf(e))
\* C5, amended: the low three bytes of the field are the low 24 bits of the offset
\* and the high byte is the tag OR-ed with bits 24-27 of the offset: it is the tag
\* itself for the addresses up to 0x80FFFFFF.  Records of different types never share
\* a field, nor do records of different addresses up to 0x80FFFFFF.
C5_TaggedField ==
    /\ \A e \in Emitted :
         LET a == RecOf(e).addr
             f == FieldOf(e)
         IN  /\ f[2] = Hi(a) % 256 /\ f[3] = Lo(a) \div 256 /\ f[4] = Lo(a) % 256
             /\ f[1] = BitOr(TagOf(RecOf(e)), (Hi(a) \div 256) - 128)
             /\ Hi(a) \div 256 = 128 => f[1] = TagOf(RecOf(e))
    /\ \A e1 \in Emitted, e2 \in Emitted :
         LET c1 == RecOf(e1)
             c2 == RecOf(e2)
         IN  /\ TagOf(c1) # TagOf(c2) => FieldOf(e1) # FieldOf(e2)
             /\ (c1.addr # c2.addr /\ Hi(c1.addr) \div 256 = 128 /\ Hi(c2.addr) \div 256 = 128)
                  => FieldOf(e1) # FieldOf(e2)
C5_Witness ==
    /\ Len(wrecs) = 2
    /\ TagOf(wcodes[1]) = TagOf(wcodes[2])
    /\ wcodes[1].addr # wcodes[2].addr
    /\ Hi(wcodes[1].addr) \div 256 = 128 /\ Hi(wcodes[2].addr) \div 256 = 128

\* C6: the count field of a multi-word record is (wordCount+2)/2 for an even word
\* count and (wordCount+1)/2 for an odd one; after it come the code, a no-op word
\* only for an even count and four zero bytes, 8 * count bytes in all; the output
\* length is a multiple of 8.
C6_CountField ==
    /\ \A e \in Emitted :
         LET c == RecOf(e)
             words == Len(c.code) \div 4
             count == IF words % 2 = 0 THEN (words + 2) \div 2 ELSE (words + 1) \div 2
             rest == SubSeq(data, e.start + 8, e.stop)
         IN  Len(c.code) >= 8 =>
               /\ SubSeq(data, e.start + 4, e.start + 7) = <<0, 0, count \div 256, count % 256>>
               /\ Len(rest) = 8 * count
               /\ rest = c.code \o (IF words % 2 = 0 THEN <<96, 0, 0, 0>> ELSE << >>)
                                \o <<0, 0, 0, 0>>
    /\ wpc \in {"loop", "done"} => Len(data) % 8 = 0
C6_Witness ==
    /\ wpc = "done" /\ Len(wrecs) = 2
    /\ Len(wcodes[1].code) = 8 /\ Len(wcodes[2].code) = 12

\* C7 as stated: with every spawn successful, the process exits with a failure only
\* after header parsing and harvesting were both attempted for every file.
C7_Original ==
    (status = "exit1" /\ NoSpawnFailed) => (HeadersTried = N /\ Len(awaited) = N)
\* C7, amended: exit(1) comes only at the end of a stage, after that stage was
\* attempted for every file: a bad header ends the run after all N headers were
\* parsed and before any job is awaited; a failed job or object ends it after all N
\* jobs were awaited.  Every header and object error found by then is printed.
C7_StageBatched ==
    (status = "exit1" /\ NoSpawnFailed) =>
      /\ HeadersTried = N
      /\ pc = "collect_headers" =>
           /\ awaited = << >>
           /\ hard # {} /\ \A e \in hard : e[1] = "collect_headers"
           /\ \A e \in hard : \E l \in log : l[2] = e[2]
      /\ pc = "finish_compiling" =>
           /\ Len(awaited) = N
           /\ hard # {} /\ \A e \in hard : e[1] = "finish_compiling"
      /\ pc \in {"collect_headers", "finish_compiling", "write_codes"}
C7_Witness ==
    /\ status = "exit1" /\ pc = "collect_headers" /\ N = 2
    /\ hard = {<<"collect_headers", 1>>, <<"collect_headers", 2>>}

\* C8: no job is awaited before a spawn was attempted for every file; the jobs are
\* awaited in source order; a failed job or object is recorded and the harvest goes
\* on, so an exit(1) of finish_compiling comes after all N jobs were awaited.
C8_HarvestOrder ==
    /\ awaited # << >> => (SpawnsTried = N /\ Len(jobs) = N)
    /\ \A k \in 1..Len(awaited) : awaited[k] = k /\ jobs[k].src = k
    /\ (status = "exit1" /\ pc = "finish_compiling") => Len(awaited) = N
    /\ (status = "running" /\ pc = "finish_compiling") => Len(awaited) = idx
C8_Witness ==
    /\ status = "exit1" /\ pc = "finish_compiling" /\ N = 2
    /\ <<"finish_compiling", 1>> \in hard
    /\ awaited = <<1, 2>>

\* C9 as stated: whenever harvesting runs and up to the sort, record i holds the
\* address of source i and job i is the job of source i, and the code in record i
\* is source i's own code.
C9_Original ==
    (pc \in {"finish_compiling", "sort"}) =>
      /\ Len(codes) = N /\ Len(jobs) = N
      /\ \A i \in 1..Len(codes) :
           /\ codes[i].src = i /\ codes[i].addr = SrcAddr(paths[i])
           /\ jobs[i].src = i
           /\ codes[i].code \in OwnCodes(paths[i])
\* C9, amended: the same, with the code in record i being what was read at job i's
\* temp path: source i's own code when no other source of the run has the same temp
\* name, and otherwise the code of one of the sources sharing that name.
C9_RecordsAligned ==
    (pc \in {"finish_compiling", "sort"}) =>
      /\ Len(codes) = N /\ Len(jobs) = N
      /\ \A i \in 1..Len(codes) :
           /\ codes[i].src = i /\ codes[i].addr = SrcAddr(paths[i])
           /\ jobs[i].src = i /\ jobs[i].out_path = OutPath(paths[i])
           /\ OwnsTempFile(i) => codes[i].code \in OwnCodes(paths[i])
           /\ \E j \in 1..Len(jobs) :
                jobs[j].out_path = jobs[i].out_path /\ codes[i].code \in OwnCodes(paths[j])
C9_Witness ==
    /\ pc = "sort" /\ N = 2
    /\ OwnsTempFile(1) /\ OwnsTempFile(2)
    /\ Len(codes[1].code) = 4 /\ Len(codes[2].code) = 8

\* C10 as stated: no two jobs of a run are given the same temp output path.
C10_Original ==
    \A i \in 1..Len(jobs), j \in 1..Len(jobs) : i # j => jobs[i].out_path # jobs[j].out_path
\* C10, amended: two jobs are given the same temp output path exactly when
\* hash_bytes agrees on their source paths; the temp file of a job that shares its
\* name with no other job is written by that job alone.
C10_TempFileByHash ==
    /\ \A i \in 1..Len(jobs), j \in 1..Len(jobs) :
         jobs[i].out_path = jobs[j].out_path
           <=> hash_bytes(PathBytes(paths[jobs[i].src])) = hash_bytes(PathBytes(paths[jobs[j].src]))
    /\ \A i \in 1..Len(jobs) :
         OwnsTempFile(i) => tmpfs[jobs[i].out_path].src \in {0, paths[jobs[i].src]}
C10_Witness ==
    /\ Len(jobs) = 2 /\ OwnsTempFile(1) /\ OwnsTempFile(2)
    /\ tmpfs[jobs[1].out_path].src = paths[1]
    /\ tmpfs[jobs[2].out_path].src = paths[2]


====
